---------------------------- MODULE Spec2Model ----------------------------
(***************************************************************************)
(* fix-auth-headers.py: a codemod that injects the apiFetch helper into    *)
(* src/lib/apiBase.ts and rewrites fetch(apiUrl(...)) call sites under     *)
(* src/ to apiFetch(...).                                                  *)
(*                                                                         *)
(* Text is modelled as a sequence of tokens whose concatenation is the     *)
(* file's text.  The characters the patterns single out, ( ) , ; { } " '    *)
(* and newline, and the words they name are always tokens of their own;    *)
(* every other token is an opaque chunk that contains none of them and     *)
(* neither starts nor ends with white space.  On such text a match of any  *)
(* of the script's patterns begins and ends on token boundaries, so        *)
(* matching tokens is matching characters.                                 *)
(***************************************************************************)
EXTENDS Naturals, Sequences, FiniteSets

VARIABLES
  file,           \* SpecMigrate: content of the one file being migrated
  prev,           \* SpecMigrate: its content before the latest run
  ret,            \* SpecMigrate: value returned by the latest run
  wrote,          \* SpecMigrate: whether the latest run called write_text
  runs,           \* SpecMigrate/SpecInject: how many times the operation ran
  target,         \* SpecInject: content of src/lib/apiBase.ts
  target0,        \* SpecInject: its content before the latest run
  fs,             \* SpecRun: file id -> content
  fs0,            \* SpecRun: contents before the run
  fsI,            \* SpecRun: contents when the enumeration starts
  pc,             \* SpecRun: "start", "loop", "done" or "crashed"
  visited,        \* SpecRun: directory entries the loop has finished with
  last,           \* SpecRun: the entry enumerated most recently (NoFile before)
  inOrder,        \* SpecRun: whether the entries came in ascending order so far
  failed,         \* SpecRun: the file whose I/O failed (NoFile if none)
  updated_count,  \* SpecRun: main's counter
  reported        \* SpecRun: the count printed at the end (NotReported before)

migVars == <<file, prev, ret, wrote>>
injVars == <<target, target0>>
runVars ==
  <<fs, fs0, fsI, pc, visited, last, inOrder, failed, updated_count, reported>>
vars == <<migVars, injVars, runVars, runs>>

-----------------------------------------------------------------------------
(* Bounds of the model *)

\* fragments concatenated into a candidate file's content
MaxFrags == 3
\* lines of the target file before injection
MaxLines == 4
\* how often an operation is re-run on the same file
MaxRuns == 2
\* directory entries besides src/lib/apiBase.ts
NumFiles == 3

-----------------------------------------------------------------------------
(* Tokens *)

DQ == "\""
SQ == "'"
NL == "\n"
Quotes == {DQ, SQ}
\* tokens made of white space only (what \s matches)
WS == {" ", "  ", "    ", "\n"}
\* tokens that begin with the characters "api"
ApiTokens == {"apiUrl", "apiBase", "apiFetch"}

Range(s) == {s[i] : i \in 1..Len(s)}

\* s[i..] starts with the token sequence t
StartsAt(s, i, t) == i + Len(t) - 1 <= Len(s) /\ SubSeq(s, i, i + Len(t) - 1) = t

\* Python's  t in s  for text
Contains(s, t) == \E i \in 1..(Len(s) + 1) : StartsAt(s, i, t)

Occurrences(s, t) == {i \in 1..Len(s) : StartsAt(s, i, t)}

-----------------------------------------------------------------------------
(* Regular expressions over tokens, as re.sub applies them *)

Lit(t) == [k |-> "lit", t |-> t]
\* \s*
Ws == [k |-> "ws", t |-> ""]
\* (["\'])
QuoteCap == [k |-> "qcap", t |-> ""]
\* ["\']
QuoteAny == [k |-> "q", t |-> ""]
\* ([^c]+) followed by the literal c
RunUntil(c) == [k |-> "run", t |-> c]
\* ([^"\']*apiBase[^"\']*) followed by a quote
PathCap == [k |-> "path", t |-> ""]

\* a token of the replacement template
Tok(t) == [cap |-> 0, t |-> t]
\* \n in the replacement template
Grp(n) == [cap |-> n, t |-> ""]

NoMatch == [ok |-> FALSE, end |-> 0, caps |-> <<>>]

\* end of the white space that starts at position i (i itself if there is none)
SkipWs(s, i) ==
  CHOOSE j \in i..(Len(s) + 1) :
    /\ j = Len(s) + 1 \/ s[j] \notin WS
    /\ \A k \in i..(j - 1) : s[k] \in WS

\* first position at or after i holding a token of stop (Len(s)+1 if none)
RunEnd(s, i, stop) ==
  CHOOSE j \in i..(Len(s) + 1) :
    /\ j = Len(s) + 1 \/ s[j] \in stop
    /\ \A k \in i..(j - 1) : s[k] \notin stop

\* match pattern atoms pat[k..] against s from position i
RECURSIVE MatchFrom(_, _, _, _, _)
MatchFrom(pat, k, s, i, caps) ==
  IF k > Len(pat) THEN [ok |-> TRUE, end |-> i, caps |-> caps]
  ELSE LET a == pat[k] IN
    CASE a.k = "lit" ->
           IF i <= Len(s) /\ s[i] = a.t
           THEN MatchFrom(pat, k + 1, s, i + 1, caps) ELSE NoMatch
      [] a.k = "ws" -> MatchFrom(pat, k + 1, s, SkipWs(s, i), caps)
      [] a.k = "qcap" ->
           IF i <= Len(s) /\ s[i] \in Quotes
           THEN MatchFrom(pat, k + 1, s, i + 1, Append(caps, <<s[i]>>)) ELSE NoMatch
      [] a.k = "q" ->
           IF i <= Len(s) /\ s[i] \in Quotes
           THEN MatchFrom(pat, k + 1, s, i + 1, caps) ELSE NoMatch
      [] a.k = "run" ->
           LET j == RunEnd(s, i, {a.t}) IN
           IF j > i
           THEN MatchFrom(pat, k + 1, s, j, Append(caps, SubSeq(s, i, j - 1))) ELSE NoMatch
      [] a.k = "path" ->
           LET j == RunEnd(s, i, Quotes) IN
           IF "apiBase" \in Range(SubSeq(s, i, j - 1))
           THEN MatchFrom(pat, k + 1, s, j, Append(caps, SubSeq(s, i, j - 1))) ELSE NoMatch

\* re.match of pat at position i of s
Match(pat, s, i) == MatchFrom(pat, 1, s, i, <<>>)

\* the replacement template with the groups filled in
RECURSIVE Expand(_, _, _)
Expand(repl, k, caps) ==
  IF k > Len(repl) THEN <<>>
  ELSE (IF repl[k].cap = 0 THEN <<repl[k].t>> ELSE caps[repl[k].cap])
         \o Expand(repl, k + 1, caps)

\* re.search from position i: where the next match starts (Len(s)+1 if none)
NextMatch(pat, s, i) ==
  CHOOSE j \in i..(Len(s) + 1) :
    /\ j = Len(s) + 1 \/ Match(pat, s, j).ok
    /\ \A k \in i..(j - 1) : ~Match(pat, s, k).ok

\* re.sub(pat, repl, s): leftmost non-overlapping matches, scanned from i
RECURSIVE SubFrom(_, _, _, _)
SubFrom(pat, repl, s, i) ==
  LET j == NextMatch(pat, s, i) IN
  IF j > Len(s) THEN SubSeq(s, i, Len(s))
  ELSE LET m == Match(pat, s, j) IN
       SubSeq(s, i, j - 1) \o Expand(repl, 1, m.caps) \o SubFrom(pat, repl, s, m.end)

ReSub(pat, repl, s) == SubFrom(pat, repl, s, 1)

-----------------------------------------------------------------------------
(* update_file_with_apiFetch *)

\* import\s*{\s*apiUrl\s*}\s*from\s*(["\'])([^"\']*apiBase[^"\']*)(["\'])
ImportPattern1 ==
  <<Lit("import"), Ws, Lit("{"), Ws, Lit("apiUrl"), Ws, Lit("}"), Ws, Lit("from"), Ws,
    QuoteCap, PathCap, QuoteCap>>

\* the template with apiFetch left out of the symbol list
ImportRepl1WithoutFetch ==
  <<Tok("import"), Tok(" "), Tok("{"), Tok(" "), Tok("apiUrl"), Tok(" "), Tok("}"),
    Tok(" "), Tok("from"), Tok(" "), Grp(1), Grp(2), Grp(3)>>

\* import { apiUrl, apiFetch } from \1\2\3
ImportRepl1 ==
  <<Tok("import"), Tok(" "), Tok("{"), Tok(" "), Tok("apiUrl"), Tok(","), Tok(" "),
    Tok("apiFetch"), Tok(" "), Tok("}"), Tok(" "), Tok("from"), Tok(" "),
    Grp(1), Grp(2), Grp(3)>>

\* import\s*{\s*API_BASE,\s*apiUrl\s*}\s*from\s*(["\'])([^"\']*apiBase[^"\']*)(["\'])
ImportPattern2 ==
  <<Lit("import"), Ws, Lit("{"), Ws, Lit("API_BASE"), Lit(","), Ws, Lit("apiUrl"), Ws,
    Lit("}"), Ws, Lit("from"), Ws, QuoteCap, PathCap, QuoteCap>>

\* import { API_BASE, apiUrl, apiFetch } from \1\2\3
ImportRepl2 ==
  <<Tok("import"), Tok(" "), Tok("{"), Tok(" "), Tok("API_BASE"), Tok(","), Tok(" "),
    Tok("apiUrl"), Tok(","), Tok(" "), Tok("apiFetch"), Tok(" "), Tok("}"), Tok(" "),
    Tok("from"), Tok(" "), Grp(1), Grp(2), Grp(3)>>

\* {\s*credentials:\s*["\']include["\']\s*}\)
CredentialsTail ==
  <<Lit("{"), Ws, Lit("credentials:"), Ws, QuoteAny, Lit("include"), QuoteAny, Ws,
    Lit("}"), Lit(")")>>

\* fetch\(apiUrl\(([^)]+)\),\s*
LegacyHead ==
  <<Lit("fetch"), Lit("("), Lit("apiUrl"), Lit("("), RunUntil(")"), Lit(")"), Lit(","), Ws>>

\* fetch\(apiUrl\(([^)]+)\),\s*{\s*credentials:\s*["\']include["\']\s*}\)
CredCallPattern == LegacyHead \o CredentialsTail

\* fetch\(apiUrl\(([^)]+)\),\s*{
OptsCallPattern == LegacyHead \o <<Lit("{")>>

\* fetch\(apiUrl\(([^)]+)\)\)
BareCallPattern ==
  <<Lit("fetch"), Lit("("), Lit("apiUrl"), Lit("("), RunUntil(")"), Lit(")"), Lit(")")>>

\* apiFetch\(([^,]+),\s*{\s*credentials:\s*["\']include["\']\s*}\)
RedundantCredPattern ==
  <<Lit("apiFetch"), Lit("("), RunUntil(","), Lit(","), Ws>> \o CredentialsTail

\* the template with the argument group left out
CallReplWithoutArg == <<Tok("apiFetch"), Tok("("), Tok(")")>>

\* apiFetch(\1)
CallRepl == <<Tok("apiFetch"), Tok("("), Grp(1), Tok(")")>>

\* apiFetch(\1, {
OptsCallRepl == <<Tok("apiFetch"), Tok("("), Grp(1), Tok(","), Tok(" "), Tok("{")>>

\* 'fetch(apiUrl(' in content or 'fetch(api' in content
UsesLegacyFetch(content) ==
  \/ Contains(content, <<"fetch", "(", "apiUrl", "(">>)
  \/ \E t \in ApiTokens : Contains(content, <<"fetch", "(", t>>)

RewriteImports(content) ==
  ReSub(ImportPattern2, ImportRepl2, ReSub(ImportPattern1, ImportRepl1, content))

RewriteCalls(content) ==
  ReSub(RedundantCredPattern, CallRepl,
    ReSub(BareCallPattern, CallRepl,
      ReSub(OptsCallPattern, OptsCallRepl,
        ReSub(CredCallPattern, CallRepl, content))))

\* the six substitutions, in the script's order
Substitute(content) == RewriteCalls(RewriteImports(content))

\* update_file_with_apiFetch without its early return
UpdateFileUngated(content) ==
  LET new == Substitute(content) IN
  IF new # content
  THEN [content |-> new, ret |-> TRUE, wrote |-> TRUE]
  ELSE [content |-> content, ret |-> FALSE, wrote |-> FALSE]

\* what update_file_with_apiFetch leaves on disk, returns and whether it writes
UpdateFile(content) ==
  IF ~UsesLegacyFetch(content)
  THEN [content |-> content, ret |-> FALSE, wrote |-> FALSE]
  ELSE LET new == Substitute(content) IN
       IF new # content
       THEN [content |-> new, ret |-> TRUE, wrote |-> TRUE]
       ELSE [content |-> content, ret |-> FALSE, wrote |-> FALSE]

-----------------------------------------------------------------------------
(* add_apiFetch_to_apiBase *)

\* the text of the helper, the script's apiFetch_code (a backquote character is
\* spelled [backquote]: the TLA+ lexer does not read one inside a string)
apiFetch_code ==
  <<
    "\n", "/**", "\n", " ", "* Helper function to make authenticated API requests", "\n",
    " ", "* Automatically adds the Authorization header with the token", " ", "from", " ",
    "localStorage", "\n", " ", "*/", "\n", "export async function", " ", "apiFetch", "(",
    "path: string", ",", " ", "options: RequestInit =", " ", "{", "}", ")",
    ": Promise<Response>", " ", "{", "\n", "  ", "const url =", " ", "apiUrl", "(", "path",
    ")", ";", "\n", "\n", "  ", "// Get token", " ", "from", " ", "localStorage", "\n",
    "  ", "const token = typeof window !==", " ", "'", "undefined", "'", " ",
    "? localStorage.getItem", "(", "'", "token", "'", ")", " ", ": null", ";", "\n", "\n",
    "  ", "// Merge headers", "\n", "  ", "const headers = new Headers", "(",
    "options.headers ||", " ", "{", "}", ")", ";", "\n", "  ", "if", " ", "(", "token",
    ")", " ", "{", "\n", "    ", "headers.set", "(", "'", "Authorization", "'", ",", " ",
    "[backquote]Bearer $", "{", "token", "}", "[backquote]", ")", ";", "\n", "  ", "}",
    "\n", "\n", "  ", "// Always", " ", "include", " ", "credentials for cookies", "\n",
    "  ", "const", " ", "fetch", "Options: RequestInit =", " ", "{", "\n", "    ",
    "...options", ",", "\n", "    ", "headers", ",", "\n", "    ", "credentials:", " ",
    "'", "include", "'", ",", "\n", "  ", "}", ";", "\n", "\n", "  ", "return", " ",
    "fetch", "(", "url", ",", " ", "fetch", "Options", ")", ";", "\n", "}", "\n"
  >>

\* '\nexport default apiUrl;'
AnchorText == <<"\n", "export default", " ", "apiUrl", ";">>

\* str.find(old, i): where the next occurrence starts (Len(s)+1 if none)
NextAt(s, old, i) ==
  CHOOSE j \in i..(Len(s) + 1) :
    /\ j = Len(s) + 1 \/ StartsAt(s, j, old)
    /\ \A k \in i..(j - 1) : ~StartsAt(s, k, old)

\* str.replace(old, new): every non-overlapping occurrence, left to right, from i
RECURSIVE ReplaceFrom(_, _, _, _)
ReplaceFrom(s, old, new, i) ==
  LET j == NextAt(s, old, i) IN
  IF j > Len(s) THEN SubSeq(s, i, Len(s))
  ELSE SubSeq(s, i, j - 1) \o new \o ReplaceFrom(s, old, new, j + Len(old))

StrReplace(s, old, new) == ReplaceFrom(s, old, new, 1)

\* the content add_apiFetch_to_apiBase writes back
AddApiFetch(content) == StrReplace(content, AnchorText, apiFetch_code \o AnchorText)

-----------------------------------------------------------------------------
(* Candidate file contents *)

ModulePath == <<"./", "apiBase">>

\* import { apiUrl } from q./apiBaseq
ImportApiUrl(q) ==
  <<"import", " ", "{", " ", "apiUrl", " ", "}", " ", "from", " ", q>> \o ModulePath \o <<q>>

\* import { apiUrl, apiFetch } from q./apiBaseq
ImportApiUrlFetch(q) ==
  <<"import", " ", "{", " ", "apiUrl", ",", " ", "apiFetch", " ", "}", " ", "from", " ", q>>
    \o ModulePath \o <<q>>

\* import { API_BASE, apiUrl } from q./apiBaseq
ImportBaseUrl(q) ==
  <<"import", " ", "{", " ", "API_BASE", ",", " ", "apiUrl", " ", "}", " ", "from", " ", q>>
    \o ModulePath \o <<q>>

\* import { API_BASE, apiUrl, apiFetch } from q./apiBaseq
ImportBaseUrlFetch(q) ==
  <<"import", " ", "{", " ", "API_BASE", ",", " ", "apiUrl", ",", " ", "apiFetch", " ", "}",
    " ", "from", " ", q>> \o ModulePath \o <<q>>

\* import apiUrl from "./apiBase"  (the module's default export)
ImportDefault == <<"import", " ", "apiUrl", " ", "from", " ", DQ>> \o ModulePath \o <<DQ>>

\* import { apiUrl } from "./apiBase   (a string that is never closed)
ImportUnterminated ==
  <<"import", " ", "{", " ", "apiUrl", " ", "}", " ", "from", " ", DQ>> \o ModulePath

\* { credentials: "include" }
CredentialsOnly == <<"{", " ", "credentials:", " ", DQ, "include", DQ, " ", "}">>

\* fetch(apiUrl(X), { credentials: "include" })
LegacyCredCall(X) ==
  <<"fetch", "(", "apiUrl", "(">> \o X \o <<")", ",", " ">> \o CredentialsOnly \o <<")">>

\* fetch(apiUrl("/x"), { method: "POST" })
LegacyOptsCall ==
  <<"fetch", "(", "apiUrl", "(", DQ, "/x", DQ, ")", ",", " ", "{", " ", "method:", " ",
    DQ, "POST", DQ, " ", "}", ")">>

\* fetch(apiUrl(p))
LegacyBareCall == <<"fetch", "(", "apiUrl", "(", "p", ")", ")">>

\* fetch(apiBase, { credentials: "include" })
OtherCredCall == <<"fetch", "(", "apiBase", ",", " ">> \o CredentialsOnly \o <<")">>

\* apiFetch(X)
NewCall(X) == <<"apiFetch", "(">> \o X \o <<")">>

\* apiFetch(p, { credentials: "include" })
NewCredCall == <<"apiFetch", "(", "p", ",", " ">> \o CredentialsOnly \o <<")">>

\* argument texts X of a legacy call
Args ==
  { <<DQ, "/x", DQ>>,
    <<>>,
    <<"g", "(", "p", ")", ".id">>,
    <<"p", ",", " ">> \o CredentialsOnly }

Fragments ==
  { ImportApiUrl(DQ), ImportBaseUrl(SQ), ImportDefault, ImportUnterminated,
    LegacyOptsCall, LegacyBareCall, OtherCredCall, NewCredCall }
  \cup { LegacyCredCall(X) : X \in Args }

\* concatenations of at most n fragments
RECURSIVE Concats(_)
Concats(n) ==
  IF n = 0 THEN {<<>>}
  ELSE LET shorter == Concats(n - 1) IN
       shorter \cup {c \o f : c \in shorter, f \in Fragments}

Contents == Concats(MaxFrags)

-----------------------------------------------------------------------------
(* SpecMigrate: update_file_with_apiFetch run repeatedly on one file *)

\* stand-ins for "no file" and "nothing printed"
NoFile == NumFiles + 1
NotReported == NumFiles + 2

IdleInject == target = <<>> /\ target0 = <<>>
IdleRun ==
  /\ fs = <<>> /\ fs0 = <<>> /\ fsI = <<>> /\ pc = "idle" /\ visited = {}
  /\ last = NoFile /\ inOrder = TRUE /\ failed = NoFile
  /\ updated_count = 0 /\ reported = NotReported
IdleMigrate == file = <<>> /\ prev = <<>> /\ ret = FALSE /\ wrote = FALSE

InitMigrate ==
  /\ file \in Contents
  /\ prev = file
  /\ ret = FALSE
  /\ wrote = FALSE
  /\ runs = 0
  /\ IdleInject
  /\ IdleRun

MigrateCallSites ==
  /\ runs < MaxRuns
  /\ \E r \in {UpdateFile(file)} :
       /\ file' = r.content
       /\ ret' = r.ret
       /\ wrote' = r.wrote
  /\ prev' = file
  /\ runs' = runs + 1
  /\ UNCHANGED <<injVars, runVars>>

NextMigrate == MigrateCallSites

SpecMigrate == InitMigrate /\ [][NextMigrate]_vars

-----------------------------------------------------------------------------
(* Claims about update_file_with_apiFetch, checked under SpecMigrate *)

LegacyCall == <<"fetch", "(", "apiUrl", "(">>
NewCallHead == <<"apiFetch", "(">>
Count(s, t) == Cardinality(Occurrences(s, t))

\* C1: once the operation has run on a file, a second run changes nothing and
\* returns false.
C1_SecondRunIsNoOp == runs = 2 => (file = prev /\ ret = FALSE)

\* C5: on a file containing neither 'fetch(apiUrl(' nor 'fetch(api' the operation
\* writes nothing, leaves the content as it was and returns false.
C5_GateLeavesFileAlone ==
  (runs >= 1 /\ ~UsesLegacyFetch(prev)) => (file = prev /\ ret = FALSE /\ wrote = FALSE)

\* a run on a file without the legacy substrings whose imports and apiFetch calls
\* the substitutions would have changed
C5_Witness ==
  /\ runs = 1
  /\ ~UsesLegacyFetch(prev)
  /\ RewriteImports(prev) # prev
  /\ RewriteCalls(prev) # prev
  /\ file = prev

\* the file holds exactly one fetch(apiUrl( call, and it is
\* fetch(apiUrl(X), { credentials: "include" })
OnlyLegacyCallIs(c, X) ==
  /\ Count(c, LegacyCall) = 1
  /\ Contains(c, LegacyCredCall(X))

RewrittenToNewCall(X) ==
  /\ Contains(file, NewCall(X))
  /\ ~Contains(file, LegacyCall)

PlainArg(X) ==
  /\ X # <<>>
  /\ ")" \notin Range(X)
  /\ \A i \in 1..Len(X) :
       ~Match(<<Lit(","), Ws>> \o CredentialsTail, X \o <<")">>, i).ok

ImportsBecome(from, to) ==
  /\ ~Contains(file, from)
  /\ Count(file, to) >= Count(prev, from) + Count(prev, to)

ImportsRewritten ==
  \A q \in Quotes :
    /\ Contains(prev, ImportApiUrl(q)) =>
         ImportsBecome(ImportApiUrl(q), ImportApiUrlFetch(q))
    /\ Contains(prev, ImportBaseUrl(q)) =>
         ImportsBecome(ImportBaseUrl(q), ImportBaseUrlFetch(q))

\* C8 as stated: in every file where such an import statement occurs, it gains
\* apiFetch, the module path and the quote characters being kept.
C8_EveryFile == runs = 1 => ImportsRewritten

\* two matches of the pattern overlap: a statement begins inside the module string
\* of an earlier one, which was never closed
Overlapping(pat, c) ==
  \E i \in Occurrences(c, <<"import">>) :
    /\ Match(pat, c, i).ok
    /\ \E j \in (i + 1)..(Match(pat, c, i).end - 1) : Match(pat, c, j).ok

\* C8 amended: the same, for every file that contains a legacy call substring and
\* in which no such import statement begins inside an unclosed module string of an
\* earlier one.
C8_GatedFiles ==
  (/\ runs = 1
   /\ UsesLegacyFetch(prev)
   /\ ~Overlapping(ImportPattern1, prev)
   /\ ~Overlapping(ImportPattern2, prev)) => ImportsRewritten

\* both import forms present in a file that passes the gate, both rewritten
C8_Witness ==
  /\ runs = 1
  /\ UsesLegacyFetch(prev)
  /\ Contains(prev, ImportApiUrl(DQ))
  /\ Contains(prev, ImportBaseUrl(SQ))
  /\ Contains(file, ImportApiUrlFetch(DQ))
  /\ Contains(file, ImportBaseUrlFetch(SQ))

ImportsApiFetch(c) ==
  \E q \in Quotes : Contains(c, ImportApiUrlFetch(q)) \/ Contains(c, ImportBaseUrlFetch(q))

\* C10: whenever a run turns at least one call into an apiFetch( call, the
\* resulting content imports apiFetch from the apiBase module.
C10_CallsImplyImport ==
  (runs = 1 /\ Count(file, NewCallHead) > Count(prev, NewCallHead)) => ImportsApiFetch(file)

-----------------------------------------------------------------------------
(* SpecInject: add_apiFetch_to_apiBase run repeatedly on src/lib/apiBase.ts *)

\* export default apiUrl;
AnchorLine == <<"export default", " ", "apiUrl", ";">>

\* export function apiUrl(path) {}
DeclLine == <<"export function", " ", "apiUrl", "(", "path", ")", " ", "{", "}">>

\* a comment at the end of a line
Comment == <<" ", "// default export">>

Pieces == {<<NL>>, AnchorLine, DeclLine, Comment}

\* concatenations of at most n pieces
RECURSIVE TargetTexts(_)
TargetTexts(n) ==
  IF n = 0 THEN {<<>>}
  ELSE LET shorter == TargetTexts(n - 1) IN
       shorter \cup {c \o p : c \in shorter, p \in Pieces}

InitInject ==
  /\ target \in TargetTexts(MaxLines)
  /\ target0 = target
  /\ runs = 0
  /\ IdleMigrate
  /\ IdleRun

InjectHelper ==
  /\ runs < MaxRuns
  /\ target' = AddApiFetch(target)
  /\ target0' = target
  /\ runs' = runs + 1
  /\ UNCHANGED <<migVars, runVars>>

NextInject == InjectHelper

SpecInject == InitInject /\ [][NextInject]_vars

-----------------------------------------------------------------------------
(* Claims about add_apiFetch_to_apiBase, checked under SpecInject *)

\* C3: a target file that already holds the helper block is left untouched: a
\* second run does not insert the helper again.
C3_NoSecondInsertion ==
  (runs = 2 /\ Contains(target0, apiFetch_code)) => target = target0

\* position i starts a line that is exactly the anchor marker
AnchorLineAt(s, i) ==
  /\ StartsAt(s, i, AnchorLine)
  /\ (i = 1 \/ s[i - 1] = NL)
  /\ (i + Len(AnchorLine) > Len(s) \/ s[i + Len(AnchorLine)] = NL)

HasAnchorLine(s) == \E i \in 1..Len(s) : AnchorLineAt(s, i)

\* C9: without a line matching the anchor marker the content stays as it was; with
\* such a line the helper text is inserted immediately before it.
C9_AnchorDecides ==
  runs = 1 =>
    /\ ~HasAnchorLine(target0) => target = target0
    /\ HasAnchorLine(target0) =>
         /\ Contains(target, apiFetch_code \o <<NL>> \o AnchorLine)
         /\ Len(target) > Len(target0)

-----------------------------------------------------------------------------
(* SpecRun: main over a directory tree *)

\* file 0 is src/lib/apiBase.ts; files 1..NumFiles are the other entries that
\* src_dir.rglob("*.ts*") yields
FileIds == 0..NumFiles
TargetFile == 0

\* the end of the file's name
Suffix(f) ==
  IF f = TargetFile THEN ".ts"
  ELSE CASE f % 3 = 1 -> ".ts"
         [] f % 3 = 2 -> ".tsv"
         [] OTHER -> ".tsx"

\* file_path.name.endswith(('.ts', '.tsx'))
IsCandidate(f) == Suffix(f) \in {".ts", ".tsx"}

\* contents of src/lib/apiBase.ts before the run
TargetContents ==
  { DeclLine \o <<NL>> \o AnchorLine,
    DeclLine,
    LegacyBareCall \o <<NL>> \o AnchorLine }

\* contents of the other files before the run
TreeContents ==
  { ImportApiUrl(DQ) \o <<NL>> \o LegacyCredCall(<<DQ, "/x", DQ>>),
    OtherCredCall,
    ImportApiUrl(DQ) \o <<NL>> \o NewCredCall }

\* the loop body counting every candidate, whatever update_file_with_apiFetch returns
LoopBodyCountsAll(st, f) ==
  IF IsCandidate(f)
  THEN [fs |-> [st.fs EXCEPT ![f] = UpdateFile(st.fs[f]).content], count |-> st.count + 1]
  ELSE st

\* the loop body with the rewritten content never written back
LoopBodyWithoutWrite(st, f) ==
  IF IsCandidate(f)
  THEN [fs |-> st.fs, count |-> IF UpdateFile(st.fs[f]).ret THEN st.count + 1 ELSE st.count]
  ELSE st

\* the loop body leaving the loop's later entries alone once one file was updated
LoopBodyStopsAfterUpdate(st, f) ==
  IF IsCandidate(f) /\ st.count = 0
  THEN LET r == UpdateFile(st.fs[f]) IN
       [fs |-> [st.fs EXCEPT ![f] = r.content],
        count |-> IF r.ret THEN st.count + 1 ELSE st.count]
  ELSE st

\* the body of main's for loop for one directory entry
LoopBody(st, f) ==
  IF IsCandidate(f)
  THEN LET r == UpdateFile(st.fs[f]) IN
       [fs |-> [st.fs EXCEPT ![f] = r.content],
        count |-> IF r.ret THEN st.count + 1 ELSE st.count]
  ELSE st

\* main's for loop over the entries in the given order
RECURSIVE MainLoop(_, _)
MainLoop(st, order) ==
  IF order = <<>> THEN st ELSE MainLoop(LoopBody(st, Head(order)), Tail(order))

\* what a failed write_text can leave behind: the open failed and the file is as
\* it was, or the open truncated it and the data never arrived
FailedWrite(old) == {old, <<>>}

InitRun ==
  /\ fs \in [FileIds -> TargetContents \cup TreeContents]
  /\ fs[TargetFile] \in TargetContents
  /\ \A f \in FileIds \ {TargetFile} : fs[f] \in TreeContents
  /\ fs0 = fs
  /\ fsI = fs
  /\ pc = "start"
  /\ visited = {}
  /\ last = NoFile
  /\ inOrder = TRUE
  /\ failed = NoFile
  /\ updated_count = 0
  /\ reported = NotReported
  /\ runs = 0
  /\ IdleMigrate
  /\ IdleInject

\* add_apiFetch_to_apiBase() returns
RunInject ==
  /\ pc = "start"
  /\ fs' = [fs EXCEPT ![TargetFile] = AddApiFetch(fs[TargetFile])]
  /\ fsI' = fs'
  /\ pc' = "loop"
  /\ UNCHANGED <<fs0, visited, last, inOrder, failed, updated_count, reported, runs,
                 migVars, injVars>>

\* add_apiFetch_to_apiBase() raises: read_text fails, or write_text does
RunInjectFails ==
  /\ pc = "start"
  /\ \/ UNCHANGED fs
     \/ \E c \in FailedWrite(fs[TargetFile]) : fs' = [fs EXCEPT ![TargetFile] = c]
  /\ pc' = "crashed"
  /\ failed' = TargetFile
  /\ UNCHANGED <<fs0, fsI, visited, last, inOrder, updated_count, reported, runs,
                 migVars, injVars>>

\* one iteration of the for loop, on whichever entry rglob yields next
Iterate(f) ==
  /\ pc = "loop"
  /\ f \notin visited
  /\ \E st \in {LoopBody([fs |-> fs, count |-> updated_count], f)} :
       /\ fs' = st.fs
       /\ updated_count' = st.count
  /\ visited' = visited \cup {f}
  /\ last' = f
  /\ inOrder' = (inOrder /\ (last = NoFile \/ last < f))
  /\ UNCHANGED <<fs0, fsI, pc, failed, reported, runs, migVars, injVars>>

\* update_file_with_apiFetch raises on entry f: read_text fails, or write_text does
IterateFails(f) ==
  /\ pc = "loop"
  /\ f \notin visited
  /\ IsCandidate(f)
  /\ \/ UNCHANGED fs
     \/ /\ UpdateFile(fs[f]).wrote
        /\ \E c \in FailedWrite(fs[f]) : fs' = [fs EXCEPT ![f] = c]
  /\ pc' = "crashed"
  /\ failed' = f
  /\ UNCHANGED <<fs0, fsI, visited, last, inOrder, updated_count, reported, runs,
                 migVars, injVars>>

\* the loop is over: print the count
Finish ==
  /\ pc = "loop"
  /\ visited = FileIds
  /\ reported' = updated_count
  /\ pc' = "done"
  /\ UNCHANGED <<fs, fs0, fsI, visited, last, inOrder, failed, updated_count, runs,
                 migVars, injVars>>

NextRun ==
  \/ RunInject
  \/ RunInjectFails
  \/ \E f \in FileIds : Iterate(f)
  \/ \E f \in FileIds : IterateFails(f)
  \/ Finish

SpecRun == InitRun /\ [][NextRun]_vars

-----------------------------------------------------------------------------
(* Claims about main, checked under SpecRun *)

\* the N files that pass the suffix filter
Candidates == {f \in FileIds : IsCandidate(f)}

\* the M of them that contain a legacy call substring
LegacyCandidates == {f \in Candidates : UsesLegacyFetch(fs0[f])}

\* the candidates whose content the loop changed
ChangedCandidates == {f \in Candidates : fs[f] # fsI[f]}

\* C2 as stated: with N candidate files of which M contain legacy call patterns,
\* the run reports exactly M and leaves the other N-M files untouched.
C2_ReportsLegacyFiles ==
  pc = "done" =>
    /\ reported = Cardinality(LegacyCandidates)
    /\ \A f \in Candidates \ LegacyCandidates : fs[f] = fs0[f]

\* C2 amended: the run reports exactly the number of candidate files whose content
\* the loop changed, which is at most M; every candidate without legacy call
\* patterns is left as it was when the enumeration began, and every changed file
\* is among the M.
C2_ReportsChangedFiles ==
  pc = "done" =>
    /\ reported = Cardinality(ChangedCandidates)
    /\ reported <= Cardinality(LegacyCandidates)
    /\ ChangedCandidates \subseteq LegacyCandidates
    /\ \A f \in Candidates \ LegacyCandidates : fs[f] = fsI[f]
    /\ \A f \in FileIds \ Candidates : fs[f] = fs0[f]

\* a finished run over three candidates: some changed, one with a legacy substring
\* passed over, one without legacy patterns
C2_Witness ==
  /\ pc = "done"
  /\ Cardinality(Candidates) >= 3
  /\ reported >= 1
  /\ reported < Cardinality(LegacyCandidates)
  /\ Candidates \ LegacyCandidates # {}

\* the content update_file_with_apiFetch gives entry f, from what the loop found
Migrated(f) == IF IsCandidate(f) THEN UpdateFile(fsI[f]).content ELSE fsI[f]

Halted == ~ENABLED NextRun

\* C4 as stated: after an I/O failure the run has halted, every file processed
\* before the failing one keeps its migrated content, every file not yet reached
\* keeps its original content, and no count is reported.
C4_PartialFailure ==
  pc = "crashed" =>
    /\ Halted
    /\ reported = NotReported
    /\ \A f \in visited : fs[f] = Migrated(f)
    /\ \A f \in FileIds \ (visited \cup {failed}) : fs[f] = fs0[f]

\* C4 amended: the same, except that a file not yet reached keeps the content it
\* had when the enumeration began: src/lib/apiBase.ts is itself enumerated and by
\* then holds the injected helper.
C4_PartialFailureAfterInject ==
  pc = "crashed" =>
    /\ Halted
    /\ reported = NotReported
    /\ \A f \in visited : fs[f] = Migrated(f)
    /\ \A f \in FileIds \ (visited \cup {failed}) : fs[f] = fsI[f]
    /\ \A f \in FileIds \ (visited \cup {failed, TargetFile}) : fs[f] = fs0[f]

\* a failure in the middle of the loop: a rewritten file behind it, an unreached
\* file with legacy calls in front of it
C4_Witness ==
  /\ pc = "crashed"
  /\ failed # TargetFile
  /\ \E f \in visited : fs[f] # fs0[f] /\ f # TargetFile
  /\ \E f \in Candidates \ (visited \cup {failed}) : UpdateFile(fs[f]).ret

AscendingOrder == [i \in 1..(NumFiles + 1) |-> i - 1]

\* C7: whatever order the entries were enumerated in, a finished run leaves the
\* contents and reports the count that the ascending enumeration gives.
C7_OrderIndependent ==
  pc = "done" =>
    LET st == MainLoop([fs |-> fsI, count |-> 0], AscendingOrder) IN
      /\ fs = st.fs
      /\ reported = st.count

\* a finished run that did not enumerate in ascending order and changed two files
C7_Witness ==
  /\ pc = "done"
  /\ ~inOrder
  /\ reported >= 2

=============================================================================
